---- MODULE Spec2Model ----
(***************************************************************************)
(* A model of template_rs (src/src/lib.rs): the placeholder scanner, the   *)
(* Template (content + placeholder HashMap) and the TemplateAssembler.     *)
(*                                                                         *)
(* Strings are sequences of one-character strings.  A Result is a record   *)
(* [status, val]: status "Ok" with the returned text in val, or status     *)
(* "MissingPlaceholder" with the offending name in val.                    *)
(***************************************************************************)
EXTENDS Naturals, Sequences, FiniteSets

VARIABLES cur, templates, ret

vars == <<cur, templates, ret>>

(***************************************************************************)
(* Bounds of the model.                                                    *)
(***************************************************************************)
MaxTemplates == 2
MaxToks == 6

(***************************************************************************)
(* Results.                                                                *)
(***************************************************************************)
Ok(v) == [status |-> "Ok", val |-> v]

MissingPlaceholder(name) == [status |-> "MissingPlaceholder", val |-> name]

(***************************************************************************)
(* str::trim: strips leading and trailing whitespace.                      *)
(***************************************************************************)
IsWhitespace(c) == c = " "

RECURSIVE trim_start(_)
trim_start(s) ==
    IF s # <<>> /\ IsWhitespace(Head(s)) THEN trim_start(Tail(s)) ELSE s

RECURSIVE trim_end(_)
trim_end(s) ==
    IF s # <<>> /\ IsWhitespace(s[Len(s)])
    THEN trim_end(SubSeq(s, 1, Len(s) - 1))
    ELSE s

trim(s) == trim_end(trim_start(s))

(***************************************************************************)
(* The regex @\[([^]]+)\]@ .  RunEnd is where the greedy [^]]+ stops: the  *)
(* first "]" at or after p, or one past the end of the text.  MatchEnd is  *)
(* the index of the last character of the match that starts at p, or 0     *)
(* when no match starts there.                                             *)
(***************************************************************************)
RunEnd(s, p) ==
    CHOOSE q \in p..(Len(s) + 1) :
        /\ (q = Len(s) + 1 \/ s[q] = "]")
        /\ \A r \in p..(q - 1) : s[r] # "]"

MatchEnd(s, p) ==
    IF p + 1 <= Len(s) /\ s[p] = "@" /\ s[p + 1] = "["
    THEN LET q == RunEnd(s, p + 2)
         IN  IF q > p + 2 /\ q + 1 <= Len(s) /\ s[q + 1] = "@"
             THEN q + 1
             ELSE 0
    ELSE 0

(***************************************************************************)
(* Regex::captures_iter: the leftmost non-overlapping matches, each giving *)
(* its capture group 1.                                                    *)
(***************************************************************************)
RECURSIVE captures_iter(_, _)
captures_iter(s, p) ==
    IF p > Len(s)
    THEN <<>>
    ELSE LET e == MatchEnd(s, p)
         IN  IF e # 0
             THEN <<SubSeq(s, p + 2, e - 2)>> \o captures_iter(s, e + 1)
             ELSE captures_iter(s, p + 1)

(***************************************************************************)
(* Template::extract_placeholders: every capture, trimmed, is inserted     *)
(* with an empty value.                                                    *)
(***************************************************************************)
extract_placeholders_untrimmed(content) ==
    LET caps == captures_iter(content, 1)
    IN  [k \in {caps[i] : i \in DOMAIN caps} |-> <<>>]

extract_placeholders(content) ==
    LET caps == captures_iter(content, 1)
    IN  [k \in {trim(caps[i]) : i \in DOMAIN caps} |-> <<>>]

(***************************************************************************)
(* The iteration orders a HashMap with key set S can have.  The order is   *)
(* fixed by the hasher state and the table, so it is chosen when the map   *)
(* is built and kept in the field `order` of the template.                 *)
(***************************************************************************)
IterOrders(S) ==
    {o \in [1..Cardinality(S) -> S] :
        \A i, j \in 1..Cardinality(S) : i # j => o[i] # o[j]}

(***************************************************************************)
(* HashMap::insert on the placeholders of a template.                      *)
(***************************************************************************)
insert(t, k, v) ==
    IF k \in DOMAIN t.placeholders
    THEN [t EXCEPT !.placeholders[k] = v]
    ELSE [t EXCEPT !.placeholders =
                       [x \in DOMAIN t.placeholders \cup {k} |->
                           IF x = k THEN v ELSE t.placeholders[x]],
                   !.order = Append(t.order, k)]

(***************************************************************************)
(* Template::new, for each iteration order the new HashMap can have.       *)
(***************************************************************************)
Template_new(content) ==
    LET ph == extract_placeholders(content)
    IN  {[content |-> content, placeholders |-> ph, order |-> o] :
            o \in IterOrders(DOMAIN ph)}

(***************************************************************************)
(* Template::set.  Returns the template after the call and the result.     *)
(***************************************************************************)
Template_set_unchecked(t, placeholder, value) ==
    [t |-> insert(t, placeholder, value), res |-> Ok(<<>>)]

Template_set_insert_first(t, placeholder, value) ==
    IF placeholder \notin DOMAIN t.placeholders
    THEN [t |-> insert(t, placeholder, value),
          res |-> MissingPlaceholder(placeholder)]
    ELSE [t |-> insert(t, placeholder, value), res |-> Ok(<<>>)]

Template_set(t, placeholder, value) ==
    IF placeholder \notin DOMAIN t.placeholders
    THEN [t |-> t, res |-> MissingPlaceholder(placeholder)]
    ELSE [t |-> insert(t, placeholder, value), res |-> Ok(<<>>)]

(***************************************************************************)
(* str::replace: every non-overlapping occurrence of pat, left to right.   *)
(***************************************************************************)
StartsWithAt(s, pat, p) ==
    /\ p + Len(pat) - 1 <= Len(s)
    /\ SubSeq(s, p, p + Len(pat) - 1) = pat

RECURSIVE replace_from(_, _, _, _)
replace_from(s, pat, to, p) ==
    IF p > Len(s)
    THEN <<>>
    ELSE IF StartsWithAt(s, pat, p)
         THEN to \o replace_from(s, pat, to, p + Len(pat))
         ELSE <<s[p]>> \o replace_from(s, pat, to, p + 1)

replace(s, pat, to) == replace_from(s, pat, to, 1)

(***************************************************************************)
(* Template::render: the loop over the placeholders in iteration order.    *)
(***************************************************************************)
format_pattern(placeholder) == <<"@", "[">> \o placeholder \o <<"]", "@">>

RECURSIVE render_loop(_, _, _)
render_loop(t, result, i) ==
    IF i > Len(t.order)
    THEN Ok(result)
    ELSE LET placeholder == t.order[i]
             value == t.placeholders[placeholder]
         IN  IF value = <<>>
             THEN MissingPlaceholder(placeholder)
             ELSE render_loop(t,
                              replace(result, format_pattern(placeholder), value),
                              i + 1)

RECURSIVE render_loop_no_check(_, _, _)
render_loop_no_check(t, result, i) ==
    IF i > Len(t.order)
    THEN Ok(result)
    ELSE LET placeholder == t.order[i]
             value == t.placeholders[placeholder]
         IN  render_loop_no_check(t,
                 replace(result, format_pattern(placeholder), value), i + 1)

Template_render_no_check(t) == render_loop_no_check(t, t.content, 1)

Template_render(t) == render_loop(t, t.content, 1)

(***************************************************************************)
(* TemplateAssembler::set_global: the loop over the templates; `?` returns *)
(* at the first failing set, keeping what was already written.             *)
(***************************************************************************)
RECURSIVE set_global_loop(_, _, _, _)
set_global_loop(ts, placeholder, value, i) ==
    IF i > Len(ts)
    THEN [ts |-> ts, res |-> Ok(<<>>)]
    ELSE IF placeholder \in DOMAIN ts[i].placeholders
         THEN LET r == Template_set(ts[i], placeholder, value)
              IN  IF r.res.status # "Ok"
                  THEN [ts |-> [ts EXCEPT ![i] = r.t], res |-> r.res]
                  ELSE set_global_loop([ts EXCEPT ![i] = r.t],
                                       placeholder, value, i + 1)
         ELSE set_global_loop(ts, placeholder, value, i + 1)

RECURSIVE set_global_loop_no_skip(_, _, _, _)
set_global_loop_no_skip(ts, placeholder, value, i) ==
    IF i > Len(ts)
    THEN [ts |-> ts, res |-> Ok(<<>>)]
    ELSE LET r == Template_set(ts[i], placeholder, value)
         IN  IF r.res.status # "Ok"
             THEN [ts |-> [ts EXCEPT ![i] = r.t], res |-> r.res]
             ELSE set_global_loop_no_skip([ts EXCEPT ![i] = r.t],
                                          placeholder, value, i + 1)

set_global_no_skip(ts, placeholder, value) ==
    set_global_loop_no_skip(ts, placeholder, value, 1)

set_global(ts, placeholder, value) ==
    set_global_loop(ts, placeholder, value, 1)

(***************************************************************************)
(* TemplateAssembler::render_all: the loop over the templates; `?` returns *)
(* the error of the first template whose render fails.                     *)
(***************************************************************************)
RECURSIVE render_all_loop(_, _, _)
render_all_loop(ts, result, i) ==
    IF i > Len(ts)
    THEN Ok(result)
    ELSE LET r == Template_render(ts[i])
         IN  IF r.status # "Ok"
             THEN r
             ELSE render_all_loop(ts, (result \o r.val) \o <<"\n">>, i + 1)

RECURSIVE render_all_loop_best_effort(_, _, _)
render_all_loop_best_effort(ts, result, i) ==
    IF i > Len(ts)
    THEN Ok(result)
    ELSE LET r == Template_render(ts[i])
         IN  IF r.status # "Ok"
             THEN render_all_loop_best_effort(ts, result, i + 1)
             ELSE render_all_loop_best_effort(ts,
                      (result \o r.val) \o <<"\n">>, i + 1)

render_all_best_effort(ts) == render_all_loop_best_effort(ts, <<>>, 1)

render_all(ts) == render_all_loop(ts, <<>>, 1)

(***************************************************************************)
(* Documents, names and values the callers pass.                           *)
(***************************************************************************)
DocA == <<"A", "=", "@", "[", "x", "]", "@">>
DocB == <<"B", "=", "@", "[", "y", "]", "@">>
DocXY == <<"@", "[", "x", "]", "@", ",", "@", "[", "y", "]", "@">>
DocMissing == <<"@", "[", "m", "i", "s", "s", "i", "n", "g", "]", "@">>
DocAB == <<"@", "[", "a", "]", "@", "@", "[", "b", "]", "@">>
DocSpaced == <<"@", "[", " ", "p", " ", "]", "@">>
DocTwice == <<"@", "[", "p", "]", "@", "-", "@", "[", "p", "]", "@">>

Docs == {DocA, DocB, DocXY}
Names == {<<"x">>, <<"y">>, <<"z">>}
Values == {<<>>, <<"1">>}

DocsT == {DocMissing, DocAB, DocSpaced, DocTwice}
NamesT == {<<"m", "i", "s", "s", "i", "n", "g">>, <<"a">>, <<"b">>, <<"p">>,
           <<"z", "z">>}
ValuesT == {<<>>, <<"X">>, <<"@", "[", "b", "]", "@">>}

(***************************************************************************)
(* The documents of the scanner specification: every concatenation of at   *)
(* most MaxToks tokens.                                                    *)
(***************************************************************************)
Toks == {<<"@", "[">>, <<"]", "@">>, <<"a">>, <<" ">>, <<"]">>}

RECURSIVE Flatten(_)
Flatten(ss) == IF ss = <<>> THEN <<>> ELSE Head(ss) \o Flatten(Tail(ss))

ScanDocs(max) == UNION {{Flatten(ts) : ts \in [1..n -> Toks]} : n \in 0..max}

(***************************************************************************)
(* State.  cur is the Template the caller holds (<<>> when it holds none), *)
(* templates is TemplateAssembler.templates, ret is the last call and what *)
(* it returned.                                                            *)
(***************************************************************************)
Call(op, name, value, res) ==
    [op |-> op, name |-> name, value |-> value,
     status |-> res.status, val |-> res.val]

Init ==
    /\ cur = <<>>
    /\ templates = <<>>
    /\ ret = Call("assembler_new", <<>>, <<>>, Ok(<<>>))

InitScan ==
    /\ cur = <<>>
    /\ templates = <<>>
    /\ \E d \in ScanDocs(MaxToks) : ret = Call("input", <<>>, <<>>, Ok(d))

(***************************************************************************)
(* let cur = Template::new(content)?                                       *)
(***************************************************************************)
New(content) ==
    /\ \E t \in Template_new(content) : cur' = <<t>>
    /\ ret' = Call("new", <<>>, <<>>, Ok(<<>>))
    /\ UNCHANGED templates

NewA == \E content \in Docs : New(content)

NewT == \E content \in DocsT : New(content)

NewFromInput ==
    /\ ret.op = "input"
    /\ New(ret.val)

(***************************************************************************)
(* cur.set(placeholder, value)                                             *)
(***************************************************************************)
Set(placeholder, value) ==
    /\ cur # <<>>
    /\ LET r == Template_set(cur[1], placeholder, value)
       IN  /\ cur' = <<r.t>>
           /\ ret' = Call("set", placeholder, value, r.res)
    /\ UNCHANGED templates

SetA == \E placeholder \in Names, value \in Values : Set(placeholder, value)

SetT == \E placeholder \in NamesT, value \in ValuesT : Set(placeholder, value)

(***************************************************************************)
(* cur.render()                                                            *)
(***************************************************************************)
RenderDraining ==
    /\ cur # <<>>
    /\ ret' = Call("render", <<>>, <<>>, Template_render(cur[1]))
    /\ cur' = <<[cur[1] EXCEPT !.placeholders =
                    [k \in DOMAIN cur[1].placeholders |-> <<>>]]>>
    /\ UNCHANGED templates

Render ==
    /\ cur # <<>>
    /\ ret' = Call("render", <<>>, <<>>, Template_render(cur[1]))
    /\ UNCHANGED <<cur, templates>>

(***************************************************************************)
(* assembler.add_template(cur): cur is moved into the assembler.           *)
(***************************************************************************)
AddTemplate ==
    /\ cur # <<>>
    /\ Len(templates) < MaxTemplates
    /\ templates' = Append(templates, cur[1])
    /\ cur' = <<>>
    /\ ret' = Call("add_template", <<>>, <<>>, Ok(<<>>))

(***************************************************************************)
(* assembler.set_global(placeholder, value)                                *)
(***************************************************************************)
SetGlobal(placeholder, value) ==
    /\ LET r == set_global(templates, placeholder, value)
       IN  /\ templates' = r.ts
           /\ ret' = Call("set_global", placeholder, value, r.res)
    /\ UNCHANGED cur

SetGlobalA ==
    \E placeholder \in Names, value \in Values : SetGlobal(placeholder, value)

(***************************************************************************)
(* assembler.render_all()                                                  *)
(***************************************************************************)
RenderAll ==
    /\ ret' = Call("render_all", <<>>, <<>>, render_all(templates))
    /\ UNCHANGED <<cur, templates>>

Next == NewA \/ SetA \/ Render \/ AddTemplate \/ SetGlobalA \/ RenderAll

NextT == NewT \/ SetT \/ Render

NextScan == NewFromInput

Spec == Init /\ [][Next]_vars

SpecT == Init /\ [][NextT]_vars

SpecScan == InitScan /\ [][NextScan]_vars

(***************************************************************************)
(* Vocabulary of the properties.                                           *)
(***************************************************************************)
AllTemplates ==
    {cur[i] : i \in DOMAIN cur} \cup {templates[i] : i \in DOMAIN templates}

Keys(t) == DOMAIN t.placeholders

EmptyKeys(t) == {k \in Keys(t) : t.placeholders[k] = <<>>}

BoundKeys(t) == Keys(t) \ EmptyKeys(t)

Min(S) == CHOOSE x \in S : \A y \in S : x <= y

Max(S) == CHOOSE x \in S : \A y \in S : y <= x

Contains(s, pat) == \E p \in 1..Len(s) : StartsWithAt(s, pat, p)

(* C1: the key set of every Template equals the key set scanned from its   *)
(* document at construction in every reachable state, and no step of set,  *)
(* render, set_global or render_all (successful or failing) adds or        *)
(* removes a key of a Template.                                            *)
KeysAsScanned ==
    \A t \in AllTemplates : Keys(t) = DOMAIN extract_placeholders(t.content)

KeysKept ==
    /\ \A i \in DOMAIN templates :
          /\ i \in DOMAIN templates'
          /\ Keys(templates'[i]) = Keys(templates[i])
    /\ (cur # <<>> /\ ret'.op \in {"set", "render", "set_global", "render_all"})
          => (cur' # <<>> /\ Keys(cur'[1]) = Keys(cur[1]))
    /\ (cur # <<>> /\ ret'.op = "add_template")
          => Keys(templates'[Len(templates')]) = Keys(cur[1])

C1_KeySetFrozen == [](KeysAsScanned) /\ [][KeysKept]_vars

C1_Witness ==
    /\ ret.op = "set"
    /\ ret.status = "MissingPlaceholder"
    /\ cur # <<>>
    /\ BoundKeys(cur[1]) # {}
    /\ Len(templates) >= 1
    /\ \E i \in DOMAIN templates : BoundKeys(templates[i]) # {}

(* C2: a set whose name is not a key discovered at construction returns    *)
(* MissingPlaceholder carrying that name and leaves the Template (mapping  *)
(* and document) exactly as it was.                                        *)
C2_SetUnknownStep ==
    (ret'.op = "set" /\ cur # <<>>
        /\ ret'.name \notin DOMAIN extract_placeholders(cur[1].content))
    => /\ ret'.status = "MissingPlaceholder"
       /\ ret'.val = ret'.name
       /\ cur' = cur

C2_SetUnknownFails == [][C2_SetUnknownStep]_vars

C2_Witness ==
    /\ ret.op = "set"
    /\ ret.status = "MissingPlaceholder"
    /\ cur # <<>>
    /\ ret.name \notin Keys(cur[1])
    /\ BoundKeys(cur[1]) # {}
    /\ EmptyKeys(cur[1]) # {}

(* C3: a render of a Template with at least one empty value returns        *)
(* MissingPlaceholder(k) for a key k whose value is empty, never Ok; the   *)
(* Template of "@[missing]@" rendered with nothing set fails with          *)
(* MissingPlaceholder("missing").                                          *)
C3_RenderUnboundStep ==
    (ret'.op = "render" /\ cur # <<>> /\ EmptyKeys(cur[1]) # {})
    => /\ ret'.status = "MissingPlaceholder"
       /\ ret'.val \in EmptyKeys(cur[1])
       /\ (cur[1].content = DocMissing
              => ret'.val = <<"m", "i", "s", "s", "i", "n", "g">>)

C3_RenderUnboundFails == [][C3_RenderUnboundStep]_vars

C3_Witness ==
    /\ ret.op = "render"
    /\ ret.status = "MissingPlaceholder"
    /\ cur # <<>>
    /\ ret.val \in EmptyKeys(cur[1])
    /\ BoundKeys(cur[1]) # {}

(* The document with every marker the scanner recognised replaced, in one  *)
(* pass, by the value of its trimmed name.                                 *)
RECURSIVE SinglePass(_, _, _)
SinglePass(s, ph, p) ==
    IF p > Len(s)
    THEN <<>>
    ELSE LET e == MatchEnd(s, p)
         IN  IF e # 0
             THEN ph[trim(SubSeq(s, p + 2, e - 2))] \o SinglePass(s, ph, e + 1)
             ELSE <<s[p]>> \o SinglePass(s, ph, p + 1)

HasDelimiter(v) == Contains(v, <<"@", "[">>) \/ Contains(v, <<"]", "@">>)

(* C4: with every key bound to a non-empty value free of marker            *)
(* delimiters, a successful render returns the document with every marker  *)
(* occurrence the scanner recognised (also those written with whitespace   *)
(* around the name) replaced by the value of its key, the rest unchanged.  *)
C4_RenderReplacesEveryMarker ==
    (/\ ret.op = "render"
     /\ ret.status = "Ok"
     /\ cur # <<>>
     /\ \A k \in Keys(cur[1]) : ~HasDelimiter(cur[1].placeholders[k]))
    => ret.val = SinglePass(cur[1].content, cur[1].placeholders, 1)

(* C5: when the value bound to one key contains the exact marker of        *)
(* another key, the rendered text carries that value verbatim: the output  *)
(* is the one-pass substitution of the document, whatever the order of     *)
(* the keys.                                                               *)
C5_NoResubstitution ==
    (/\ ret.op = "render"
     /\ ret.status = "Ok"
     /\ cur # <<>>
     /\ \E k1, k2 \in Keys(cur[1]) :
           /\ k1 # k2
           /\ Contains(cur[1].placeholders[k1], format_pattern(k2)))
    => ret.val = SinglePass(cur[1].content, cur[1].placeholders, 1)

(* C6: a render of a fully bound Template leaves the Template (document    *)
(* and mapping) as it was, and a render that directly follows a render     *)
(* returns the same result.                                                *)
C6_RenderStep ==
    (ret'.op = "render" /\ cur # <<>> /\ EmptyKeys(cur[1]) = {})
    => /\ cur' = cur
       /\ (ret.op = "render" => (ret'.status = ret.status /\ ret'.val = ret.val))

C6_RenderReadOnly == [][C6_RenderStep]_vars

C6_Witness ==
    /\ ret.op = "render"
    /\ ret.status = "Ok"
    /\ cur # <<>>
    /\ Cardinality(Keys(cur[1])) = 2
    /\ EmptyKeys(cur[1]) = {}

(***************************************************************************)
(* Marker occurrences, stated on the text.  An occurrence is a pair of the *)
(* index of its open delimiter and the index of its close delimiter.       *)
(***************************************************************************)
OpenAt(D, i) == i + 1 <= Len(D) /\ D[i] = "@" /\ D[i + 1] = "["

CloseAt(D, j) == j + 1 <= Len(D) /\ D[j] = "]" /\ D[j + 1] = "@"

OccAnyName(D) ==
    {o \in (1..Len(D)) \X (1..Len(D)) :
        /\ OpenAt(D, o[1])
        /\ o[2] >= o[1] + 2
        /\ CloseAt(D, o[2])
        /\ \A r \in (o[1] + 2)..(o[2] - 1) : ~CloseAt(D, r)}

OccNoBracket(D) ==
    {o \in (1..Len(D)) \X (1..Len(D)) :
        /\ OpenAt(D, o[1])
        /\ o[2] >= o[1] + 3
        /\ CloseAt(D, o[2])
        /\ \A r \in (o[1] + 2)..(o[2] - 1) : D[r] # "]"}

(* S holds the occurrences met reading left to right, none overlapping an  *)
(* earlier one of S.                                                       *)
LeftToRight(occ, S) ==
    \A o \in occ :
        o \in S <=> ~(\E q \in S : q[1] < o[1] /\ o[1] <= q[2] + 1)

Stripped(s) ==
    LET solid == {r \in DOMAIN s : s[r] # " "}
    IN  IF solid = {} THEN <<>> ELSE SubSeq(s, Min(solid), Max(solid))

NamesOf(D, S) == {Stripped(SubSeq(D, o[1] + 2, o[2] - 1)) : o \in S}

(* C7 as stated: the keys of a new Template are the distinct trimmed names *)
(* of all @[name]@ occurrences, the name being everything between the open *)
(* delimiter and the next close delimiter; every value is empty.           *)
C7_KeysAreAllNames ==
    (ret.op = "new" /\ cur # <<>>)
    => /\ ret.status = "Ok"
       /\ \E S \in SUBSET OccAnyName(cur[1].content) :
             /\ LeftToRight(OccAnyName(cur[1].content), S)
             /\ Keys(cur[1]) = NamesOf(cur[1].content, S)
       /\ \A k \in Keys(cur[1]) : cur[1].placeholders[k] = <<>>

(* C7 amended: the keys of a new Template are the distinct trimmed names   *)
(* of the @[name]@ occurrences whose name is a non-empty run of characters *)
(* other than "]", taken left to right without overlap; one key per name,  *)
(* every value empty.                                                      *)
C7_KeysAreBracketFreeNames ==
    (ret.op = "new" /\ cur # <<>>)
    => /\ ret.status = "Ok"
       /\ \E S \in SUBSET OccNoBracket(cur[1].content) :
             /\ LeftToRight(OccNoBracket(cur[1].content), S)
             /\ Keys(cur[1]) = NamesOf(cur[1].content, S)
       /\ \A k \in Keys(cur[1]) : cur[1].placeholders[k] = <<>>

C7_Witness ==
    /\ ret.op = "new"
    /\ cur # <<>>
    /\ cur[1].content = <<"@", "[", "]", "@", "@", "[", " ", "a", "]", "@">>
    /\ Keys(cur[1]) = {<<"a">>}

(* The texts of the Templates, each followed by one newline.               *)
RECURSIVE JoinedLines(_)
JoinedLines(ts) ==
    IF ts = <<>>
    THEN <<>>
    ELSE (Template_render(Head(ts)).val \o <<"\n">>) \o JoinedLines(Tail(ts))

(* C8: render_all returns the rendered texts in add_template order, each   *)
(* followed by one newline, when every Template is bound; otherwise the    *)
(* MissingPlaceholder of the first Template with an empty value, e.g.      *)
(* MissingPlaceholder("y") for "A=@[x]@" bound and "B=@[y]@" unbound.      *)
C8_RenderAll ==
    ret.op = "render_all" =>
        LET failing == {i \in DOMAIN templates : EmptyKeys(templates[i]) # {}}
        IN  /\ failing = {}
               => (ret.status = "Ok" /\ ret.val = JoinedLines(templates))
            /\ failing # {}
               => /\ ret.status = "MissingPlaceholder"
                  /\ ret.val \in EmptyKeys(templates[Min(failing)])
            /\ (/\ Len(templates) = 2
                /\ templates[1].content = DocA
                /\ EmptyKeys(templates[1]) = {}
                /\ templates[2].content = DocB
                /\ EmptyKeys(templates[2]) # {})
               => (ret.status = "MissingPlaceholder" /\ ret.val = <<"y">>)

C8_Witness ==
    /\ ret.op = "render_all"
    /\ Len(templates) = 2
    /\ templates[1].content = DocA
    /\ EmptyKeys(templates[1]) = {}
    /\ templates[2].content = DocB
    /\ EmptyKeys(templates[2]) # {}
    /\ ret.status = "MissingPlaceholder"

(* C9: set_global returns Ok, writes the value under the name in every     *)
(* Template that has the key, and changes nothing else: not the other      *)
(* Templates, not the other keys, not the order, not the caller's own      *)
(* Template.                                                               *)
C9_SetGlobalStep ==
    ret'.op = "set_global" =>
        /\ ret'.status = "Ok"
        /\ cur' = cur
        /\ Len(templates') = Len(templates)
        /\ \A i \in DOMAIN templates :
              templates'[i] =
                  IF ret'.name \in Keys(templates[i])
                  THEN [templates[i] EXCEPT !.placeholders[ret'.name] = ret'.value]
                  ELSE templates[i]

C9_SetGlobal == [][C9_SetGlobalStep]_vars

C9_Witness ==
    /\ ret.op = "set_global"
    /\ ret.status = "Ok"
    /\ ret.value # <<>>
    /\ Len(templates) = 2
    /\ \E i, j \in DOMAIN templates :
          /\ ret.name \in Keys(templates[i])
          /\ templates[i].placeholders[ret.name] = ret.value
          /\ Cardinality(Keys(templates[i])) = 2
          /\ ret.name \notin Keys(templates[j])

(* C10: every key of every Template is a trimmed, non-empty string.        *)
C10_KeysNonEmpty ==
    \A t \in AllTemplates : \A k \in Keys(t) : k # <<>> /\ Stripped(k) = k

====
